---- MODULE Spec2Model ----
(***************************************************************************)
(* Model of the memory subsystem of basilisk-core                          *)
(* (computer_use_demo/memory): MemorySystem with its four in-memory        *)
(* indices, StorageManager (one SQLite table) and EmbeddingManager's       *)
(* cosine similarity.                                                      *)
(*                                                                         *)
(* Representation.                                                         *)
(*  - Experience ids (uuid4) are fresh values; they are numbered 1, 2, ... *)
(*    in creation order, so "recorded earlier" is "smaller id".            *)
(*  - Timestamps (datetime.now().isoformat()) are readings of a clock that *)
(*    never runs backwards; isoformat strings of the same clock compare    *)
(*    like the instants they denote, so they are kept as the readings.     *)
(*  - A Python dict that is iterated (semantic_index) is a sequence of     *)
(*    its values in insertion order; the SQLite table is the sequence of   *)
(*    its rows in rowid order, which is the order SELECT * scans it in.    *)
(*  - importance 1.0, 2.0 are the integers 1, 2; embeddings are short      *)
(*    integer vectors (a query may embed to the zero vector, the recorded  *)
(*    texts here do not), and a cosine similarity is kept as an exact      *)
(*    signed square (num/den) so that comparing two of them is exact.      *)
(*  - A write to the database (store_memory) may fail with sqlite3.Error;  *)
(*    reads and UPDATEs are taken to succeed.                              *)
(*  - Calls run one at a time, each to completion.                         *)
(*  - StorageManager is also modelled on its own, column by column with    *)
(*    the JSON encoding of the structured columns (table, reply); the      *)
(*    MemorySystem model keeps a row as the Memory it decodes to           *)
(*    (storage).                                                           *)
(*  - EmbeddingManager.get_embedding is modelled on its own over runs of   *)
(*    the program (hash_secret, embedded); a record_experience call takes  *)
(*    any of its outcomes, the recorded text not being modelled.           *)
(*  - NeuralEnhancedComputerTool (computer_use_demo/tools/neural.py) is    *)
(*    modelled on its own (neural, tool): the screenshot, the two         *)
(*    analyses of the provider and the execution of an action are inputs, *)
(*    NeuralProcessor.update_state is the code.                           *)
(***************************************************************************)
EXTENDS Integers, Sequences, FiniteSets, TLC

\* ---- bounds ----
MaxMemories == 2      \* experiences created in one run
MaxCalls == 3         \* operations called in one run

\* ---- input domains ----
Types == {"", "action"}
None == "None"
Importances == {1, 2}
\* vectors the embedding provider returns for a recorded text, for a query
Embeddings == {<<1, 0>>, <<1, 1>>}
QueryEmbeddings == {<<0, 0>>, <<1, 0>>, <<1, 1>>}
RelNames == {"caused"}
Ids == 1..MaxMemories
\* a limit below, at and above the size of the store
Limits == 0..MaxMemories
\* clock readings: two experiences get the same timestamp or different ones
Timestamps == {0, 1}

VARIABLES semantic_index, temporal_index, importance_index, type_index,
          storage, clock, nextId, calls, result, table, reply,
          hash_secret, embedded, pending, running, neural, tool

vars == <<semantic_index, temporal_index, importance_index, type_index,
          storage, clock, nextId, calls, result, table, reply,
          hash_secret, embedded, pending, running, neural, tool>>

indices == <<semantic_index, temporal_index, importance_index, type_index>>

\* the state of StorageManager on its own, of EmbeddingManager on its own
storageManager == <<table, reply>>

embeddingManager == <<hash_secret, embedded>>

\* the coroutines of the event loop: the suspended ones, the one executing
eventLoop == <<pending, running>>

\* NeuralEnhancedComputerTool: its NeuralProcessor's state, and the call of
\* execute_with_understanding
neuralTool == <<neural, tool>>

\* ---- sequences and dicts ----
Range(s) == {s[i] : i \in 1..Len(s)}

\* Python s[:n] for n >= 0
Slice(s, n) == SubSeq(s, 1, IF n < Len(s) THEN n ELSE Len(s))

\* list.insert(i, x) with 0-based i
InsertAt(s, i, x) == SubSeq(s, 1, i) \o <<x>> \o SubSeq(s, i + 1, Len(s))

\* keys of a dict kept as the sequence of its values
Keys(index) == {index[i].id : i \in 1..Len(index)}

\* index[id]
Get(index, id) == index[CHOOSE i \in 1..Len(index) : index[i].id = id]

\* index[mem.id] = mem : a new key goes last, an old key keeps its place
DictSet(index, mem) ==
    IF mem.id \in Keys(index)
    THEN [i \in 1..Len(index) |-> IF index[i].id = mem.id THEN mem ELSE index[i]]
    ELSE Append(index, mem)

\* ---- Experience / Memory ----
NewMemory(id, timestamp, type, importance, embedding) ==
    [id |-> id, timestamp |-> timestamp, type |-> type,
     importance |-> importance, relationships |-> <<>>,
     embedding |-> embedding, access_count |-> 0]

\* ---- StorageManager ----
\* as store_memory, keeping the old row of that id
StoreKeepingOldRow(db, memory) == Append(db, memory)

\* INSERT OR REPLACE: the row of that id is deleted, the new row gets the
\* largest rowid
store_memory(db, memory) ==
    SelectSeq(db, LAMBDA row : row.id # memory.id) \o <<memory>>

\* SELECT * FROM memories
load_all_memories(db) == db

\* as update_access, raising the importance of the row as well
UpdateAccessAndImportance(db, memory_id) ==
    [i \in 1..Len(db) |->
        IF db[i].id = memory_id
        THEN [db[i] EXCEPT !.access_count = @ + 1, !.importance = @ + 1]
        ELSE db[i]]

\* UPDATE ... SET access_count = access_count + 1 WHERE id = ?
update_access(db, memory_id) ==
    [i \in 1..Len(db) |->
        IF db[i].id = memory_id
        THEN [db[i] EXCEPT !.access_count = @ + 1]
        ELSE db[i]]

RECURSIVE update_access_all(_, _)
update_access_all(db, ids) ==
    IF ids = <<>> THEN db
    ELSE update_access_all(update_access(db, Head(ids)), Tail(ids))

\* ---- StorageManager, column by column ----
\* Python values of the payload (Dict[str, Any]): the int 1, the list [1]
\* and the tuple (1,)
PyValues == {[py |-> "int", of |-> <<1>>],
             [py |-> "list", of |-> <<1>>],
             [py |-> "tuple", of |-> <<1>>]}

\* a dict is the sequence of its items: {} and {"k": value}
Contents == {<<>>} \cup {<<[key |-> "k", value |-> v]>> : v \in PyValues}

\* json.dumps of a value: ints are numbers, lists and tuples are arrays
json_dumps_value(v) ==
    [json |-> IF v.py = "int" THEN "number" ELSE "array", of |-> v.of]

\* as json_loads_value, decoding an array to a tuple
LoadsArrayAsTuple(j) ==
    [py |-> IF j.json = "number" THEN "int" ELSE "tuple", of |-> j.of]

\* json.loads of a value: numbers are ints, arrays are lists
json_loads_value(j) ==
    [py |-> IF j.json = "number" THEN "int" ELSE "list", of |-> j.of]

\* json.dumps / json.loads of a dict with string keys
json_dumps_dict(d) ==
    [json |-> "object",
     items |-> [i \in 1..Len(d) |->
                   [key |-> d[i].key, value |-> json_dumps_value(d[i].value)]]]

json_loads_dict(j) ==
    [i \in 1..Len(j.items) |->
        [key |-> j.items[i].key, value |-> json_loads_value(j.items[i].value)]]

\* json.dumps / json.loads of a list of strings or of floats
json_dumps_list(l) == [json |-> "array", items |-> l]

json_loads_list(j) == j.items

\* json.dumps / json.loads of relationships (Dict[str, List[str]])
json_dumps_relationships(r) ==
    [json |-> "object",
     items |-> [i \in 1..Len(r) |->
                   [name |-> r[i].name,
                    targets |-> json_dumps_list(r[i].targets)]]]

json_loads_relationships(j) ==
    [i \in 1..Len(j.items) |->
        [name |-> j.items[i].name,
         targets |-> json_loads_list(j.items[i].targets)]]

\* the Memory objects handed to store_memory, fields of Experience and
\* Memory side by side
Memories ==
    [id : Ids, timestamp : {0}, type : {"action"}, content : Contents,
     metadata : {<<>>}, tags : {<<"a">>}, importance : {1},
     context : {<<>>},
     relationships : {<<>>, <<[name |-> "caused", targets |-> <<1>>]>>},
     embedding : {<<1, 0>>}, last_accessed : {0}, access_count : {0},
     emotional_valence : {0}, confidence : {1}]

\* memory_data of store_memory: the structured fields as JSON text
memory_data(memory) ==
    [id |-> memory.id,
     timestamp |-> memory.timestamp,
     type |-> memory.type,
     content |-> json_dumps_dict(memory.content),
     metadata |-> json_dumps_dict(memory.metadata),
     tags |-> json_dumps_list(memory.tags),
     importance |-> memory.importance,
     context |-> json_dumps_dict(memory.context),
     relationships |-> json_dumps_relationships(memory.relationships),
     embedding |-> json_dumps_list(memory.embedding),
     last_accessed |-> memory.last_accessed,
     access_count |-> memory.access_count,
     emotional_valence |-> memory.emotional_valence,
     confidence |-> memory.confidence]

\* INSERT OR REPLACE INTO memories
insert_or_replace(rows, new_row) ==
    SelectSeq(rows, LAMBDA row : row.id # new_row.id) \o <<new_row>>

\* the Experience and Memory rebuilt from a row
from_row(row) ==
    [id |-> row.id,
     timestamp |-> row.timestamp,
     type |-> row.type,
     content |-> json_loads_dict(row.content),
     metadata |-> json_loads_dict(row.metadata),
     tags |-> json_loads_list(row.tags),
     importance |-> row.importance,
     context |-> json_loads_dict(row.context),
     relationships |-> json_loads_relationships(row.relationships),
     embedding |-> json_loads_list(row.embedding),
     last_accessed |-> row.last_accessed,
     access_count |-> row.access_count,
     emotional_valence |-> row.emotional_valence,
     confidence |-> row.confidence]

\* SELECT * FROM memories, each row rebuilt
load_all_rows(rows) == [i \in 1..Len(rows) |-> from_row(rows[i])]

\* SELECT * FROM memories WHERE id = ?: the Memory, or None (no entry)
get_memory(rows, memory_id) ==
    load_all_rows(SelectSeq(rows, LAMBDA row : row.id = memory_id))

\* UPDATE memories SET last_accessed = ?, access_count = access_count + 1
\* WHERE id = ?
update_access_row(rows, memory_id, now) ==
    [i \in 1..Len(rows) |->
        IF rows[i].id = memory_id
        THEN [rows[i] EXCEPT !.last_accessed = now, !.access_count = @ + 1]
        ELSE rows[i]]

\* what the last StorageManager call was: its name, its memory_id, the
\* Memory it was given, the Memory objects it returned and the exception
\* it raised ("" for none)
NoReply == [op |-> "init", id |-> 0, memory |-> <<>>, returned |-> <<>>,
            error |-> ""]

\* ---- EmbeddingManager.get_embedding ----
\* texts handed to get_embedding
Texts == {"a", "b"}

\* hash(text) is a signed 64-bit integer hi * 2^32 + lo: here -2^32 + 1,
\* 0, 1 and 2^32
Hashes == {[hi |-> -1, lo |-> 1], [hi |-> 0, lo |-> 0],
           [hi |-> 0, lo |-> 1], [hi |-> 1, lo |-> 0]}

\* the hash of str is keyed by a secret the interpreter draws when the
\* process starts: within one process hash is one function of the text, in
\* another process it is another one
HashSecrets == [Texts -> Hashes]

hash(secret, text) == secret[text]

\* np.random.RandomState(seed) takes 0 <= seed <= 2^32 - 1 and raises
\* ValueError for any other integer
SeedValid(seed) == seed.hi = 0

\* rng.randn(256).tolist() of the generator seeded with seed: one vector
\* per seed
randn(seed) == IF seed.lo = 0 THEN <<1, 0>> ELSE <<1, 1>>

\* what a get_embedding call comes to: the exception that leaves the call
\* ("" for none) and the vector returned
Outcome(error, vector) == [error |-> error, vector |-> vector]

\* EmbeddingManager._generate_simple_embedding
_generate_simple_embedding(hash_val) ==
    IF SeedValid(hash_val)
    THEN Outcome("", randn(hash_val))
    ELSE Outcome("ValueError", <<>>)

\* the provider call and the parse of its answer: a vector, or an
\* exception (request failed, answer is not a vector)
ProviderResponses ==
    {[ok |-> TRUE, vector |-> v] : v \in Embeddings}
        \cup {[ok |-> FALSE, vector |-> <<>>]}

\* EmbeddingManager.get_embedding, hash_val being hash(text)
get_embedding(response, hash_val) ==
    IF response.ok
    THEN Outcome("", response.vector)
    ELSE _generate_simple_embedding(hash_val)

\* the outcomes of get_embedding for a text MemorySystem serialises
EmbeddingOutcomes ==
    {get_embedding(response, hash_val) :
        response \in ProviderResponses, hash_val \in Hashes}

\* ---- MemorySystem helpers ----
\* as FirstSmaller, but stopping at an entry of equal importance too
RECURSIVE FirstSmallerOrEqual(_, _, _, _)
FirstSmallerOrEqual(index, imp_index, importance, i) ==
    IF i > Len(imp_index) THEN Len(imp_index)
    ELSE IF importance >= Get(index, imp_index[i]).importance THEN i - 1
    ELSE FirstSmallerOrEqual(index, imp_index, importance, i + 1)

\* position of the first entry of strictly smaller importance, or Len
RECURSIVE FirstSmaller(_, _, _, _)
FirstSmaller(index, imp_index, importance, i) ==
    IF i > Len(imp_index) THEN Len(imp_index)
    ELSE IF importance > Get(index, imp_index[i]).importance THEN i - 1
    ELSE FirstSmaller(index, imp_index, importance, i + 1)

\* as _insert_sorted_by_importance, without the append after the loop
InsertSortedNoAppend(index, imp_index, memory_id) ==
    LET importance == Get(index, memory_id).importance
    IN IF \E i \in 1..Len(imp_index) :
              importance > Get(index, imp_index[i]).importance
       THEN InsertAt(imp_index, FirstSmaller(index, imp_index, importance, 1),
                     memory_id)
       ELSE imp_index

_insert_sorted_by_importance(index, imp_index, memory_id) ==
    InsertAt(imp_index,
             FirstSmaller(index, imp_index, Get(index, memory_id).importance, 1),
             memory_id)

\* list.sort(key = timestamp, reverse = True): descending, equal keys keep
\* their order
RECURSIVE SortByTimestampDesc(_, _)
SortByTimestampDesc(index, ids) ==
    IF ids = <<>> THEN <<>>
    ELSE LET n == Len(ids)
             front == SortByTimestampDesc(index, SubSeq(ids, 1, n - 1))
             x == ids[n]
             t == Get(index, x).timestamp
             before == {i \in 1..Len(front) : Get(index, front[i]).timestamp < t}
             pos == IF before = {} THEN Len(front)
                    ELSE (CHOOSE i \in before : \A j \in before : i <= j) - 1
         IN InsertAt(front, pos, x)

\* type_index.setdefault(type, []) then insert at the front / append
BucketOf(tindex, type) == IF type \in DOMAIN tindex THEN tindex[type] ELSE <<>>

PutBucket(tindex, type, bucket) ==
    [t \in DOMAIN tindex \cup {type} |-> IF t = type THEN bucket ELSE tindex[t]]

\* as PrependToTemporal, adding at the end
AppendToTemporal(temporal, memory_id) == Append(temporal, memory_id)

\* self.temporal_index.insert(0, experience.id)
PrependToTemporal(temporal, memory_id) == InsertAt(temporal, 0, memory_id)

\* as PrependToBucket, adding at the end
AppendToBucket(bucket, memory_id) == Append(bucket, memory_id)

\* self.type_index[experience.type].insert(0, experience.id)
PrependToBucket(bucket, memory_id) == InsertAt(bucket, 0, memory_id)

\* ---- NeuralProcessor (tools/neural.py) ----
\* class ProcessingMode(Enum)
PERCEPTION == "perception"

DECISION == "decision"

PLANNING == "planning"

EXECUTION == "execution"

ProcessingMode == {PERCEPTION, DECISION, PLANNING, EXECUTION}

\* what process_visual_input returns: the analysis the provider answered
\* with, or {"error": str(e)} (named by a string each)
VisualAnalyses == {"elements", "text", "error"}

\* the actions of a plan, {"error": str(e)} being the one plan_actions
\* makes of an exception
PlannedActions == {"click", "key", "error"}

\* what plan_actions returns: a list of at most MaxPlan actions
MaxPlan == 2

ActionPlans ==
    UNION {[1..len -> PlannedActions] : len \in 0..MaxPlan}

\* @dataclass NeuralState; confidence is kept in tenths (1.0 is 10), a dict
\* is the function of its keys ({} is <<>>)
NeuralState(mode, confidence, context, memory, next_actions) ==
    [mode |-> mode, confidence |-> confidence, context |-> context,
     memory |-> memory, next_actions |-> next_actions]

\* NeuralProcessor.__init__: self.state
NeuralProcessor == NeuralState(PERCEPTION, 10, <<>>, <<>>, <<>>)

\* dict.update
DictUpdate(dict, other) ==
    [key \in DOMAIN dict \cup DOMAIN other |->
        IF key \in DOMAIN other THEN other[key] ELSE dict[key]]

\* the parameters of update_state besides self, all with default None
UpdateStateParameters ==
    {"mode", "confidence", "context_update", "memory_entry", "actions"}

\* the argument is passed and is truthy: a ProcessingMode member always is,
\* a float unless 0.0, a dict or a list unless empty
PassedMode(kwargs) == "mode" \in DOMAIN kwargs

PassedConfidence(kwargs) ==
    "confidence" \in DOMAIN kwargs /\ kwargs.confidence # 0

PassedContextUpdate(kwargs) ==
    "context_update" \in DOMAIN kwargs /\ DOMAIN kwargs.context_update # {}

PassedMemoryEntry(kwargs) ==
    "memory_entry" \in DOMAIN kwargs /\ DOMAIN kwargs.memory_entry # {}

PassedActions(kwargs) ==
    "actions" \in DOMAIN kwargs /\ Len(kwargs.actions) > 0

\* NeuralProcessor.update_state called with the keyword arguments kwargs: a
\* keyword that names no parameter raises TypeError before the body runs
update_state(state, kwargs) ==
    IF ~(DOMAIN kwargs \subseteq UpdateStateParameters)
    THEN [error |-> "TypeError", state |-> state]
    ELSE [error |-> "",
          state |-> NeuralState(
              IF PassedMode(kwargs) THEN kwargs.mode ELSE state.mode,
              IF PassedConfidence(kwargs) THEN kwargs.confidence
              ELSE state.confidence,
              IF PassedContextUpdate(kwargs)
              THEN DictUpdate(state.context, kwargs.context_update)
              ELSE state.context,
              IF PassedMemoryEntry(kwargs)
              THEN Append(state.memory, kwargs.memory_entry)
              ELSE state.memory,
              IF PassedActions(kwargs) THEN kwargs.actions
              ELSE state.next_actions)]

\* the values update_state(**kwargs) assigns to self.state.mode
ModeSet(kwargs) ==
    IF DOMAIN kwargs \subseteq UpdateStateParameters /\ PassedMode(kwargs)
    THEN <<kwargs.mode>>
    ELSE <<>>

\* {"timestamp": "now", "type": type, "data": data}
MemoryEntry(type, data) == [timestamp |-> "now", type |-> type, data |-> data]

\* for action in action_plan, from the action at position: raises[i] tells
\* whether ComputerTool.__call__ raises on the i-th action
RECURSIVE execute_actions(_, _, _, _)
execute_actions(state, action_plan, raises, position) ==
    IF position > Len(action_plan)
    THEN [error |-> "", state |-> state, executed |-> position - 1]
    ELSE IF raises[position]
    THEN [error |-> "Action execution failed", state |-> state,
          executed |-> position - 1]
    ELSE execute_actions(
             update_state(state,
                 [memory_entry |->
                     MemoryEntry("action", action_plan[position])]).state,
             action_plan, raises, position + 1)

\* a call of execute_with_understanding: the await it is at ("idle" for
\* none), the values its update_state calls have assigned to the mode, the
\* number of actions it has executed, the exception it raised and the error
\* of the ToolResult it returned ("" for none)
Call(pc, modes, executed, raised, returned) ==
    [pc |-> pc, modes |-> modes, executed |-> executed, raised |-> raised,
     returned |-> returned]

NoCall == Call("idle", <<>>, 0, "", "")

\* execute_with_understanding once plan_actions has returned action_plan
execute_plan(state, call, action_plan, raises) ==
    LET planning == [mode |-> PLANNING, next_actions |-> action_plan]
        planned == update_state(state, planning)
        execution == [mode |-> EXECUTION]
        executing == update_state(planned.state, execution)
        actions == execute_actions(executing.state, action_plan, raises, 1)
        perception == [mode |-> PERCEPTION, confidence |-> 10]
        final == update_state(actions.state, perception)
    IN  IF planned.error # ""
        THEN [state |-> state,
              call |-> Call("idle", call.modes, 0, planned.error, "")]
        ELSE IF actions.error # ""
        THEN [state |-> actions.state,
              call |-> Call("idle",
                            call.modes \o ModeSet(planning)
                                       \o ModeSet(execution),
                            actions.executed, "", actions.error)]
        ELSE [state |-> final.state,
              call |-> Call("idle",
                            call.modes \o ModeSet(planning)
                                       \o ModeSet(execution)
                                       \o ModeSet(perception),
                            actions.executed, "", "")]

\* ---- coroutines ----
\* a coroutine of MemorySystem: the method, the statement it is at, the
\* Memory it is building (record_experience) and its limit (recall_similar)
Task(op, pc, memory, limit) ==
    [op |-> op, pc |-> pc, memory |-> memory, limit |-> limit]

\* no coroutine is executing: the event loop is free to run another one
NoTask == Task("", "", <<>>, 0)

\* as Suspends, with one more await between the update of the temporal
\* index and the update of the importance index
SuspendsBeforeImportance(pc) == pc \in {"embedding", "importance"}

\* the statements at which a coroutine gives the event loop the control:
\* the await of get_embedding, the only await of record_experience and
\* recall_similar
Suspends(pc) == pc = "embedding"

\* the last call: its name and arguments (0, None, <<>>, "" where it has
\* none), the exception it raised ("" for none) and the ids of the memories
\* it returned
NoResult == [op |-> "init", limit |-> 0, type |-> None, query |-> <<>>,
             source |-> 0, target |-> 0, relationship |-> "",
             error |-> "", returned |-> <<>>]

Init ==
    /\ semantic_index = <<>>
    /\ temporal_index = <<>>
    /\ importance_index = <<>>
    /\ type_index = <<>>
    /\ storage = <<>>
    /\ clock = 0
    /\ nextId = 1
    /\ calls = 0
    /\ result = NoResult
    /\ table = <<>>
    /\ reply = NoReply
    /\ hash_secret = [text \in Texts |-> [hi |-> 0, lo |-> 0]]
    /\ embedded = {}
    /\ pending = {}
    /\ running = NoTask
    /\ neural = NeuralProcessor
    /\ tool = NoCall

\* the system clock advances
Tick ==
    /\ clock + 1 \in Timestamps
    /\ clock' = clock + 1
    /\ UNCHANGED <<semantic_index, temporal_index, importance_index,
                   type_index, storage, nextId, calls, result>>
    /\ UNCHANGED <<storageManager, embeddingManager, eventLoop, neuralTool>>

\* MemorySystem.record_experience, embedding being what its get_embedding
\* call comes to: an exception of get_embedding leaves the call before any
\* index is touched
record_experience(type, importance, embedding, write_fails) ==
    /\ nextId <= MaxMemories
    /\ IF embedding.error # ""
       THEN /\ result' = [NoResult EXCEPT
                            !.op = "record_experience",
                            !.error = embedding.error]
            /\ UNCHANGED <<indices, storage, nextId>>
       ELSE LET memory == NewMemory(nextId, clock, type, importance,
                                    embedding.vector)
                index == DictSet(semantic_index, memory)
            IN /\ semantic_index' = index
               /\ temporal_index' = PrependToTemporal(temporal_index, memory.id)
               /\ importance_index' =
                      _insert_sorted_by_importance(index, importance_index,
                                                   memory.id)
               /\ type_index' = PutBucket(type_index, type,
                                    PrependToBucket(BucketOf(type_index, type),
                                                    memory.id))
               /\ storage' = IF write_fails THEN storage
                             ELSE store_memory(storage, memory)
               /\ result' = [NoResult EXCEPT
                               !.op = "record_experience",
                               !.source = memory.id,
                               !.error = IF write_fails THEN "sqlite3.Error"
                                         ELSE "",
                               !.returned = IF write_fails THEN <<>>
                                            ELSE <<memory.id>>]
               /\ nextId' = nextId + 1
    /\ UNCHANGED clock

\* one more call, within the bound
Counted == calls < MaxCalls /\ calls' = calls + 1

\* one more call of the public interface of MemorySystem
Called == Counted /\ UNCHANGED <<storageManager, embeddingManager, eventLoop, neuralTool>>

Record ==
    /\ Called
    /\ \E type \in Types, importance \in Importances,
       embedding \in EmbeddingOutcomes, write_fails \in BOOLEAN :
          record_experience(type, importance, embedding, write_fails)

\* ---- EmbeddingManager.calculate_similarity ----
Dot(v1, v2) == v1[1] * v2[1] + v1[2] * v2[2]

\* dot / (|v1| * |v2|), kept as sign(dot) * dot^2 over |v1|^2 * |v2|^2;
\* 0/0 is NaN (numpy divides with a warning, it does not raise)
calculate_similarity(v1, v2) ==
    LET d == Dot(v1, v2)
        den == Dot(v1, v1) * Dot(v2, v2)
    IN [nan |-> den = 0,
        num |-> IF d < 0 THEN 0 - d * d ELSE d * d,
        den |-> den]

\* float a < b : false as soon as one side is NaN
SimLess(a, b) == ~a.nan /\ ~b.nan /\ a.num * b.den < b.num * a.den

\* the (similarity, memory) list of recall_similar, in dict order
Similarities(index, query_embedding) ==
    [i \in 1..Len(index) |->
        [similarity |-> calculate_similarity(query_embedding, index[i].embedding),
         id |-> index[i].id]]

\* ascending sort then reversal: descending, equal keys in reverse order
RECURSIVE SortAscendingReversed(_)
SortAscendingReversed(sims) ==
    IF sims = <<>> THEN <<>>
    ELSE LET n == Len(sims)
             front == SortAscendingReversed(SubSeq(sims, 1, n - 1))
             x == sims[n]
             before == {i \in 1..Len(front) :
                           ~SimLess(x.similarity, front[i].similarity)}
             pos == IF before = {} THEN Len(front)
                    ELSE (CHOOSE i \in before : \A j \in before : i <= j) - 1
         IN InsertAt(front, pos, x)

\* list.sort(reverse = True, key = similarity): descending, equal keys keep
\* their order
RECURSIVE SortBySimilarityDesc(_)
SortBySimilarityDesc(sims) ==
    IF sims = <<>> THEN <<>>
    ELSE LET n == Len(sims)
             front == SortBySimilarityDesc(SubSeq(sims, 1, n - 1))
             x == sims[n]
             before == {i \in 1..Len(front) :
                           SimLess(front[i].similarity, x.similarity)}
             pos == IF before = {} THEN Len(front)
                    ELSE (CHOOSE i \in before : \A j \in before : i <= j) - 1
         IN InsertAt(front, pos, x)

Orderings(sims) ==
    {p \in [1..Len(sims) -> Range(sims)] :
        \A i, j \in 1..Len(sims) : i # j => p[i] # p[j]}

\* The orders the sort can leave the list in.  With no NaN key, or with
\* every key NaN (all comparisons false), the result is the stable
\* descending order.  With NaN among other keys the comparison is not an
\* order and the outcome depends on the sort's merge strategy: any
\* permutation.
Rankings(sims) ==
    LET nans == {i \in 1..Len(sims) : sims[i].similarity.nan}
    IN IF nans = {} \/ nans = 1..Len(sims)
       THEN {SortBySimilarityDesc(sims)}
       ELSE Orderings(sims)

IdsOf(sims) == [i \in 1..Len(sims) |-> sims[i].id]

\* MemorySystem.recall_similar
recall_similar(query_embedding, limit) ==
    \E ranking \in Rankings(Similarities(semantic_index, query_embedding)) :
        LET memories == Slice(IdsOf(ranking), limit)
        IN /\ storage' = update_access_all(storage, memories)
           /\ result' = [NoResult EXCEPT
                           !.op = "recall_similar",
                           !.limit = limit,
                           !.query = query_embedding,
                           !.returned = memories]
           /\ UNCHANGED <<semantic_index, temporal_index, importance_index,
                          type_index, clock, nextId>>

RecallSimilar ==
    /\ Called
    /\ \E query_embedding \in QueryEmbeddings, limit \in Limits :
          recall_similar(query_embedding, limit)

\* Python truth value of the type argument
Truthy(type) == type # None /\ type # ""

\* MemorySystem.recall_recent
recall_recent(limit, type) ==
    LET memory_ids == IF Truthy(type)
                      THEN Slice(BucketOf(type_index, type), limit)
                      ELSE Slice(temporal_index, limit)
    IN IF Range(memory_ids) \subseteq Keys(semantic_index)
       THEN /\ storage' = update_access_all(storage, memory_ids)
            /\ result' = [NoResult EXCEPT
                            !.op = "recall_recent",
                            !.limit = limit,
                            !.type = type,
                            !.returned = memory_ids]
            /\ UNCHANGED <<semantic_index, temporal_index, importance_index,
                           type_index, clock, nextId>>
       ELSE /\ result' = [NoResult EXCEPT
                            !.op = "recall_recent",
                            !.limit = limit,
                            !.type = type,
                            !.error = "KeyError"]
            /\ UNCHANGED <<semantic_index, temporal_index, importance_index,
                           type_index, storage, clock, nextId>>

RecallRecent ==
    /\ Called
    /\ \E limit \in Limits, type \in Types \cup {None} :
          recall_recent(limit, type)

\* MemorySystem.recall_important
recall_important(limit) ==
    LET memory_ids == Slice(importance_index, limit)
    IN IF Range(memory_ids) \subseteq Keys(semantic_index)
       THEN /\ storage' = update_access_all(storage, memory_ids)
            /\ result' = [NoResult EXCEPT
                            !.op = "recall_important",
                            !.limit = limit,
                            !.returned = memory_ids]
            /\ UNCHANGED <<semantic_index, temporal_index, importance_index,
                           type_index, clock, nextId>>
       ELSE /\ result' = [NoResult EXCEPT
                            !.op = "recall_important",
                            !.limit = limit,
                            !.error = "KeyError"]
            /\ UNCHANGED <<semantic_index, temporal_index, importance_index,
                           type_index, storage, clock, nextId>>

RecallImportant == Called /\ \E limit \in Limits : recall_important(limit)

\* the rebuild loop of load_memories over the loaded rows
RECURSIVE Rebuild(_)
Rebuild(memories) ==
    IF memories = <<>>
    THEN [semantic |-> <<>>, temporal |-> <<>>, importance |-> <<>>,
          types |-> <<>>]
    ELSE LET n == Len(memories)
             acc == Rebuild(SubSeq(memories, 1, n - 1))
             memory == memories[n]
             index == DictSet(acc.semantic, memory)
         IN [semantic |-> index,
             temporal |-> Append(acc.temporal, memory.id),
             importance |->
                 _insert_sorted_by_importance(index, acc.importance, memory.id),
             types |-> PutBucket(acc.types, memory.type,
                           Append(BucketOf(acc.types, memory.type), memory.id))]

\* as load_memories, with a temporal index that is not cleared of the ids
\* that are still stored
LoadKeepingTemporal ==
    LET built == Rebuild(load_all_memories(storage))
        kept == SelectSeq(temporal_index,
                          LAMBDA id : id \in Keys(built.semantic))
    IN /\ semantic_index' = built.semantic
       /\ temporal_index' = SortByTimestampDesc(built.semantic,
                                 kept \o built.temporal)
       /\ importance_index' = built.importance
       /\ type_index' = [t \in DOMAIN built.types |->
                            SortByTimestampDesc(built.semantic, built.types[t])]
       /\ result' = [NoResult EXCEPT !.op = "load_memories"]
       /\ UNCHANGED <<storage, clock, nextId>>

\* MemorySystem.load_memories
load_memories ==
    LET built == Rebuild(load_all_memories(storage))
    IN /\ semantic_index' = built.semantic
       /\ temporal_index' = SortByTimestampDesc(built.semantic, built.temporal)
       /\ importance_index' = built.importance
       /\ type_index' = [t \in DOMAIN built.types |->
                            SortByTimestampDesc(built.semantic, built.types[t])]
       /\ result' = [NoResult EXCEPT !.op = "load_memories"]
       /\ UNCHANGED <<storage, clock, nextId>>

LoadMemories == Called /\ load_memories

\* relationships[relationship], [] when the key is new
RelList(relationships, relationship) ==
    IF relationship \in DOMAIN relationships
    THEN relationships[relationship] ELSE <<>>

\* as AddRelationship, without the membership test
AddRelationshipAlways(relationships, relationship, target_id) ==
    [r \in DOMAIN relationships \cup {relationship} |->
        IF r = relationship
        THEN Append(RelList(relationships, relationship), target_id)
        ELSE relationships[r]]

\* the two statements of connect_memories that update source.relationships
AddRelationship(relationships, relationship, target_id) ==
    LET old == RelList(relationships, relationship)
        new == IF target_id \in Range(old) THEN old ELSE Append(old, target_id)
    IN [r \in DOMAIN relationships \cup {relationship} |->
           IF r = relationship THEN new ELSE relationships[r]]

\* as MissingKey, looking up the source only
MissingSourceKey(index, source_id, target_id) == source_id \notin Keys(index)

\* self.semantic_index[source_id], self.semantic_index[target_id]: one of
\* the two lookups raises KeyError
MissingKey(index, source_id, target_id) ==
    source_id \notin Keys(index) \/ target_id \notin Keys(index)

\* MemorySystem.connect_memories
connect_memories(source_id, target_id, relationship, write_fails) ==
    IF MissingKey(semantic_index, source_id, target_id)
    THEN /\ result' = [NoResult EXCEPT
                         !.op = "connect_memories",
                         !.source = source_id,
                         !.target = target_id,
                         !.relationship = relationship,
                         !.error = "KeyError"]
         /\ UNCHANGED <<semantic_index, temporal_index, importance_index,
                        type_index, storage, clock, nextId>>
    ELSE LET source == Get(semantic_index, source_id)
             memory == [source EXCEPT !.relationships =
                           AddRelationship(@, relationship, target_id)]
         IN /\ semantic_index' = DictSet(semantic_index, memory)
            /\ storage' = IF write_fails THEN storage
                          ELSE store_memory(storage, memory)
            /\ result' = [NoResult EXCEPT
                            !.op = "connect_memories",
                            !.source = source_id,
                            !.target = target_id,
                            !.relationship = relationship,
                            !.error = IF write_fails THEN "sqlite3.Error" ELSE ""]
            /\ UNCHANGED <<temporal_index, importance_index, type_index,
                           clock, nextId>>

Connect ==
    /\ Called
    /\ \E source_id \in Ids, target_id \in Ids, relationship \in RelNames,
          write_fails \in BOOLEAN :
          connect_memories(source_id, target_id, relationship, write_fails)

\* ---- EmbeddingManager operations ----
\* EmbeddingManager.get_embedding called directly; embedded keeps every
\* text with whether the provider call failed and what the call came to
GetEmbedding ==
    /\ \E text \in Texts, response \in ProviderResponses :
          embedded' = embedded \cup
              {[text |-> text,
                failed |-> ~response.ok,
                outcome |-> get_embedding(response, hash(hash_secret, text))]}
    /\ UNCHANGED <<indices, storage, clock, nextId, calls, result,
                   storageManager, hash_secret, eventLoop, neuralTool>>

\* the program is run again: the new process has its own hash secret
Restart ==
    /\ hash_secret' \in HashSecrets
    /\ UNCHANGED <<indices, storage, clock, nextId, calls, result,
                   storageManager, embedded, eventLoop, neuralTool>>

\* ---- StorageManager operations ----
\* StorageManager.store_memory
StoreMemory ==
    /\ Counted
    /\ \E memory \in Memories :
          /\ table' = insert_or_replace(table, memory_data(memory))
          /\ reply' = [NoReply EXCEPT !.op = "store_memory",
                                      !.id = memory.id,
                                      !.memory = <<memory>>]
    /\ UNCHANGED <<indices, storage, clock, nextId, result, embeddingManager,
                   eventLoop, neuralTool>>

\* StorageManager.load_all_memories
LoadAllMemories ==
    /\ Counted
    /\ reply' = [NoReply EXCEPT !.op = "load_all_memories",
                                !.returned = load_all_rows(table)]
    /\ UNCHANGED <<indices, storage, clock, nextId, result, table,
                   embeddingManager, eventLoop, neuralTool>>

\* StorageManager.get_memory
GetMemory ==
    /\ Counted
    /\ \E memory_id \in Ids :
          reply' = [NoReply EXCEPT !.op = "get_memory",
                                  !.id = memory_id,
                                  !.returned = get_memory(table, memory_id)]
    /\ UNCHANGED <<indices, storage, clock, nextId, result, table,
                   embeddingManager, eventLoop, neuralTool>>

\* StorageManager.update_access: the UPDATE changes the rows it matches,
\* none included, and raises nothing
UpdateAccess ==
    /\ Counted
    /\ \E memory_id \in Ids :
          /\ table' = update_access_row(table, memory_id, clock)
          /\ reply' = [NoReply EXCEPT !.op = "update_access",
                                      !.id = memory_id]
    /\ UNCHANGED <<indices, storage, clock, nextId, result, embeddingManager,
                   eventLoop, neuralTool>>

\* ---- MemorySystem operations as coroutines ----
\* the event loop can start or resume a coroutine
Idle == running = NoTask

\* the executing coroutine goes on to its next statement, or is suspended
\* there
Yield(task) ==
    IF Suspends(task.pc)
    THEN running' = NoTask /\ pending' = pending \cup {task}
    ELSE running' = task /\ pending' = pending

\* record_experience up to its await: the Experience is created and the
\* embedding of its text requested (core.py 69-86)
StartRecord ==
    /\ Idle
    /\ Counted
    /\ nextId <= MaxMemories
    /\ \E type \in Types, importance \in Importances :
          pending' = pending \cup
              {Task("record_experience", "embedding",
                    <<NewMemory(nextId, clock, type, importance, <<>>)>>, 0)}
    /\ nextId' = nextId + 1
    /\ UNCHANGED <<indices, storage, clock, result, running,
                   storageManager, embeddingManager, neuralTool>>

\* a suspended record_experience is resumed: get_embedding returns or
\* raises (core.py 86-92)
ResumeRecord ==
    /\ Idle
    /\ \E task \in pending :
          /\ task.op = "record_experience"
          /\ pending' = pending \ {task}
          /\ IF task.pc # "embedding"
             THEN running' = task /\ UNCHANGED result
             ELSE \E embedding \in EmbeddingOutcomes :
                     IF embedding.error # ""
                     THEN /\ running' = NoTask
                          /\ result' = [NoResult EXCEPT
                                          !.op = "record_experience",
                                          !.error = embedding.error]
                     ELSE /\ running' =
                                 Task(task.op, "semantic",
                                      <<[task.memory[1] EXCEPT
                                           !.embedding = embedding.vector]>>, 0)
                          /\ UNCHANGED result
    /\ UNCHANGED <<indices, storage, clock, nextId, calls,
                   storageManager, embeddingManager, neuralTool>>

\* self.semantic_index[experience.id] = memory (core.py 94)
RunSemantic ==
    /\ running.op = "record_experience" /\ running.pc = "semantic"
    /\ semantic_index' = DictSet(semantic_index, running.memory[1])
    /\ Yield([running EXCEPT !.pc = "temporal"])
    /\ UNCHANGED <<temporal_index, importance_index, type_index, storage,
                   clock, nextId, calls, result, storageManager,
                   embeddingManager, neuralTool>>

\* self.temporal_index.insert(0, experience.id) (core.py 95)
RunTemporal ==
    /\ running.op = "record_experience" /\ running.pc = "temporal"
    /\ temporal_index' = PrependToTemporal(temporal_index,
                                           running.memory[1].id)
    /\ Yield([running EXCEPT !.pc = "importance"])
    /\ UNCHANGED <<semantic_index, importance_index, type_index, storage,
                   clock, nextId, calls, result, storageManager,
                   embeddingManager, neuralTool>>

\* self._insert_sorted_by_importance(experience.id) (core.py 96)
RunImportance ==
    /\ running.op = "record_experience" /\ running.pc = "importance"
    /\ importance_index' =
           _insert_sorted_by_importance(semantic_index, importance_index,
                                        running.memory[1].id)
    /\ Yield([running EXCEPT !.pc = "type"])
    /\ UNCHANGED <<semantic_index, temporal_index, type_index, storage,
                   clock, nextId, calls, result, storageManager,
                   embeddingManager, neuralTool>>

\* self.type_index[experience.type].insert(0, experience.id)
\* (core.py 98-101)
RunType ==
    /\ running.op = "record_experience" /\ running.pc = "type"
    /\ LET memory == running.memory[1]
       IN type_index' =
              PutBucket(type_index, memory.type,
                        PrependToBucket(BucketOf(type_index, memory.type),
                                        memory.id))
    /\ Yield([running EXCEPT !.pc = "store"])
    /\ UNCHANGED <<semantic_index, temporal_index, importance_index, storage,
                   clock, nextId, calls, result, storageManager,
                   embeddingManager, neuralTool>>

\* self.storage.store_memory(memory) and the return (core.py 104-106)
RunStore ==
    /\ running.op = "record_experience" /\ running.pc = "store"
    /\ \E write_fails \in BOOLEAN :
          LET memory == running.memory[1]
          IN /\ storage' = IF write_fails THEN storage
                           ELSE store_memory(storage, memory)
             /\ result' = [NoResult EXCEPT
                             !.op = "record_experience",
                             !.source = memory.id,
                             !.error = IF write_fails THEN "sqlite3.Error"
                                       ELSE "",
                             !.returned = IF write_fails THEN <<>>
                                          ELSE <<memory.id>>]
    /\ running' = NoTask
    /\ UNCHANGED <<indices, clock, nextId, calls, pending, storageManager,
                   embeddingManager, neuralTool>>

\* recall_similar up to its await: the embedding of the query is requested
\* (core.py 110)
StartRecallSimilar ==
    /\ Idle
    /\ Counted
    /\ pending' = pending \cup {Task("recall_similar", "embedding", <<>>,
                                  MaxMemories)}
    /\ UNCHANGED <<indices, storage, clock, nextId, result, running,
                   storageManager, embeddingManager, neuralTool>>

\* a suspended recall_similar is resumed with the embedding of its query
\* and runs to its return (core.py 110-128)
ResumeRecallSimilar ==
    /\ Idle
    /\ \E task \in pending :
          /\ task.op = "recall_similar"
          /\ pending' = pending \ {task}
          /\ \E query_embedding \in QueryEmbeddings :
                recall_similar(query_embedding, task.limit)
    /\ UNCHANGED <<calls, running, storageManager, embeddingManager, neuralTool>>

\* recall_recent, recall_important and connect_memories have no await: the
\* event loop runs each of them from call to return. The recalls read the
\* whole index (limit = MaxMemories, no type); the storage write of
\* connect_memories succeeds
RunRecallRecent == Idle /\ Called /\ recall_recent(MaxMemories, None)

RunRecallImportant == Idle /\ Called /\ recall_important(MaxMemories)

RunConnect ==
    /\ Idle
    /\ Called
    /\ \E source_id \in Ids, target_id \in Ids, relationship \in RelNames :
          connect_memories(source_id, target_id, relationship, FALSE)

\* ---- NeuralEnhancedComputerTool.execute_with_understanding ----
\* the call up to its first await: the screenshot has an image or has none
Screenshot ==
    /\ tool.pc = "idle"
    /\ Counted
    /\ \E base64_image \in BOOLEAN :
          tool' = IF base64_image
                  THEN Call("process_visual_input", <<>>, 0, "", "")
                  ELSE Call("idle", <<>>, 0, "",
                            "Failed to capture environment")
    /\ UNCHANGED <<indices, storage, clock, nextId, result, storageManager,
                   embeddingManager, eventLoop, neural>>

\* process_visual_input returns and the state is updated with the analysis
ProcessVisualInput ==
    /\ tool.pc = "process_visual_input"
    /\ \E visual_analysis \in VisualAnalyses :
          LET kwargs ==
                  [mode |-> PERCEPTION,
                   context_update |-> [visual_analysis |-> visual_analysis],
                   memory_entry |-> MemoryEntry("perception",
                                                visual_analysis)]
              updated == update_state(neural, kwargs)
          IN  /\ neural' = updated.state
              /\ tool' = [tool EXCEPT !.pc = "plan_actions",
                                      !.modes = @ \o ModeSet(kwargs)]
    /\ UNCHANGED <<indices, storage, clock, nextId, calls, result,
                   storageManager, embeddingManager, eventLoop>>

\* plan_actions returns and the call runs to its end
PlanActions ==
    /\ tool.pc = "plan_actions"
    /\ \E action_plan \in ActionPlans :
          \E raises \in [1..Len(action_plan) -> BOOLEAN] :
             LET run == execute_plan(neural, tool, action_plan, raises)
             IN  /\ neural' = run.state
                 /\ tool' = run.call
    /\ UNCHANGED <<indices, storage, clock, nextId, calls, result,
                   storageManager, embeddingManager, eventLoop>>

Next ==
    \/ Tick
    \/ Record
    \/ RecallSimilar
    \/ RecallRecent
    \/ RecallImportant
    \/ LoadMemories
    \/ Connect

Spec == Init /\ [][Next]_vars

\* record_experience and the recall operations only
NextRecordRecall ==
    \/ Tick
    \/ Record
    \/ RecallSimilar
    \/ RecallRecent
    \/ RecallImportant

SpecRecordRecall == Init /\ [][NextRecordRecall]_vars

\* record_experience and load_memories only
NextRecordLoad ==
    \/ Tick
    \/ Record
    \/ LoadMemories

SpecRecordLoad == Init /\ [][NextRecordLoad]_vars

\* record_experience, connect_memories and load_memories only
NextRecordConnectLoad ==
    \/ Tick
    \/ Record
    \/ Connect
    \/ LoadMemories

SpecRecordConnectLoad == Init /\ [][NextRecordConnectLoad]_vars

\* StorageManager called directly
NextStorage ==
    \/ Tick
    \/ StoreMemory
    \/ LoadAllMemories
    \/ GetMemory
    \/ UpdateAccess

SpecStorage == Init /\ [][NextStorage]_vars

\* EmbeddingManager called directly, over runs of the program
NextEmbedding ==
    \/ GetEmbedding
    \/ Restart

SpecEmbedding == Init /\ [][NextEmbedding]_vars

\* record_experience, the recall operations and connect_memories as
\* coroutines of one event loop, all at one clock reading
NextCoroutines ==
    \/ StartRecord
    \/ ResumeRecord
    \/ RunSemantic
    \/ RunTemporal
    \/ RunImportance
    \/ RunType
    \/ RunStore
    \/ StartRecallSimilar
    \/ ResumeRecallSimilar
    \/ RunRecallRecent
    \/ RunRecallImportant
    \/ RunConnect

SpecCoroutines == Init /\ [][NextCoroutines]_vars

\* NeuralEnhancedComputerTool on its own
NextNeural ==
    \/ Screenshot
    \/ ProcessVisualInput
    \/ PlanActions

SpecNeural == Init /\ [][NextNeural]_vars

\* ---- properties ----
TypeIndexIds == UNION {Range(type_index[t]) : t \in DOMAIN type_index}

Timestamp(id) == Get(semantic_index, id).timestamp

Importance(id) == Get(semantic_index, id).importance

Min(a, b) == IF a < b THEN a ELSE b

\* number of experiences created so far
Recorded == nextId - 1

\* the step is a call of the public interface (result' describes it)
IsCall == calls' # calls

\* C1: in every reachable state the keys of the semantic index, the ids
\* in the temporal index, the ids in the importance index and the ids in
\* the type buckets are the same set.
C1_IndicesAgree ==
    /\ Range(temporal_index) = Keys(semantic_index)
    /\ Range(importance_index) = Keys(semantic_index)
    /\ TypeIndexIds = Keys(semantic_index)

C1_Witness ==
    /\ result.op = "load_memories"
    /\ Len(semantic_index) = 2
    /\ Len(importance_index) = 2

\* C2: after record_experience calls only, recall_recent(limit = k) with
\* k at most the number of recorded experiences returns the k most recently
\* recorded ones, the most recent first, and their timestamps do not
\* increase along the result.
C2_RecallRecentMostRecent ==
    (result.op = "recall_recent" /\ result.type = None
        /\ result.limit <= Recorded)
    => /\ result.returned = [i \in 1..result.limit |-> nextId - i]
       /\ \A i, j \in 1..Len(result.returned) :
              i < j => Timestamp(result.returned[i])
                           >= Timestamp(result.returned[j])

C2_Witness ==
    /\ result.op = "recall_recent"
    /\ result.type = None
    /\ result.limit = 1
    /\ Recorded = 2
    /\ result.returned = <<2>>
    /\ Timestamp(1) = Timestamp(2)

\* C3: after record_experience calls only, recall_important(limit = k)
\* returns min(k, recorded) entries of non-increasing importance, and of
\* two returned entries of equal importance the one recorded earlier comes
\* first.
C3_RecallImportantStable ==
    result.op = "recall_important"
    => /\ Len(result.returned) = Min(result.limit, Recorded)
       /\ \A i, j \in 1..Len(result.returned) :
              i < j =>
                /\ Importance(result.returned[i])
                       >= Importance(result.returned[j])
                /\ Importance(result.returned[i])
                       = Importance(result.returned[j])
                   => result.returned[i] < result.returned[j]

C3_Witness ==
    /\ result.op = "recall_important"
    /\ Len(result.returned) = 2
    /\ Importance(1) = Importance(2)

\* C4: when the storage write of record_experience fails, the call fails
\* with PersistenceError, the new id is in none of the four indices, and the
\* index and the storage hold the same ids.
C4_RollbackOnWriteFailure ==
    (result.op = "record_experience" /\ result.error # "")
    => /\ result.error = "PersistenceError"
       /\ result.source \notin Keys(semantic_index)
       /\ result.source \notin Range(temporal_index)
       /\ result.source \notin Range(importance_index)
       /\ result.source \notin TypeIndexIds
       /\ Keys(semantic_index) = Keys(storage)

\* no target id twice in any relationship list of any of the memories
NoDuplicates(s) == \A i, j \in 1..Len(s) : i # j => s[i] # s[j]

TargetsDistinct(memories) ==
    \A i \in 1..Len(memories) :
        \A r \in DOMAIN memories[i].relationships :
            NoDuplicates(memories[i].relationships[r])

\* a connect_memories call whose target is already listed under the
\* relationship leaves the source's relationships as they were
RepeatedConnectKeeps ==
    (/\ IsCall
     /\ result'.op = "connect_memories"
     /\ ~MissingKey(semantic_index, result'.source, result'.target)
     /\ result'.target \in
            Range(RelList(Get(semantic_index, result'.source).relationships,
                          result'.relationship)))
    => Get(semantic_index', result'.source).relationships
           = Get(semantic_index, result'.source).relationships

\* C5: every relationship list of every experience, in the index and in
\* the persisted record, holds each target id at most once, and a repeated
\* connect_memories(A, B, r) leaves A's relationships unchanged.
C5_ConnectIdempotent ==
    /\ [](TargetsDistinct(semantic_index) /\ TargetsDistinct(storage))
    /\ [][RepeatedConnectKeeps]_vars

C5_Witness ==
    /\ result.op = "connect_memories"
    /\ result.error = ""
    /\ calls = 3
    /\ Recorded = 1
    /\ Get(semantic_index, 1).relationships = [r \in {"caused"} |-> <<1>>]
    /\ Get(storage, 1).relationships = [r \in {"caused"} |-> <<1>>]

\* a connect_memories call with an absent source or target id raises the
\* given exception and changes neither the indices nor the storage
ConnectMissingRaises(exception) ==
    (/\ IsCall
     /\ result'.op = "connect_memories"
     /\ (result'.source \notin Keys(semantic_index)
            \/ result'.target \notin Keys(semantic_index)))
    => /\ result'.error = exception
       /\ UNCHANGED <<semantic_index, temporal_index, importance_index,
                      type_index, storage>>

IndexPos(id) == CHOOSE i \in 1..Len(semantic_index) : semantic_index[i].id = id

Similarity(query, id) ==
    calculate_similarity(query, Get(semantic_index, id).embedding)

ZeroVector(v) == Dot(v, v) = 0

\* a ranks before b: more similar, or as similar and inserted earlier
RanksBefore(query, a, b) ==
    \/ SimLess(Similarity(query, b), Similarity(query, a))
    \/ /\ ~SimLess(Similarity(query, a), Similarity(query, b))
       /\ IndexPos(a) < IndexPos(b)

\* the query and every stored embedding have non-zero magnitude
NonDegenerate(query) ==
    /\ ~ZeroVector(query)
    /\ \A i \in 1..Len(semantic_index) : ~ZeroVector(semantic_index[i].embedding)

C8_DegenerateVectorFails ==
    (result.op = "recall_similar"
        /\ (ZeroVector(result.query)
               \/ \E i \in 1..Len(semantic_index) :
                      ZeroVector(semantic_index[i].embedding)))
    => /\ result.error = "DegenerateVectorError"
       /\ result.returned = <<>>

\* stored access_count of an id
StoredCount(db, id) == Get(db, id).access_count

\* C9: the persisted access_count of a memory never decreases from one
\* state to the next.
C9_AccessCountMonotonic ==
    [][\A id \in Keys(storage) \cap Keys(storage') :
           StoredCount(storage', id) >= StoredCount(storage, id)]_vars

RecallOps == {"recall_similar", "recall_recent", "recall_important"}

\* C10: a call of recall_similar, recall_recent or recall_important adds
\* exactly one to the stored access_count of every memory it returns and
\* leaves the stored access_count of every other memory unchanged.
C10_RecallCountsOnce ==
    [][(IsCall /\ result'.op \in RecallOps)
       => /\ \A id \in Range(result'.returned) :
                 /\ id \in Keys(storage) \cap Keys(storage')
                 /\ StoredCount(storage', id) = StoredCount(storage, id) + 1
          /\ \A id \in Keys(storage) \ Range(result'.returned) :
                 /\ id \in Keys(storage')
                 /\ StoredCount(storage', id) = StoredCount(storage, id)]_vars
C13_RecallRecentByType ==
    (result.op = "recall_recent" /\ result.type \in Types)
    => /\ result.error = ""
       /\ result.returned
              = Slice(BucketOf(type_index, result.type), result.limit)
       /\ \A i \in 1..Len(result.returned) :
              Get(semantic_index, result.returned[i]).type = result.type

\* C17: after record_experience and load_memories calls only, the temporal
\* index is in descending timestamp order, and of two ids with the same
\* timestamp the one inserted later (the larger id) comes first.
C17_TemporalDescending ==
    \A i, j \in 1..Len(temporal_index) :
        i < j => \/ Timestamp(temporal_index[i]) > Timestamp(temporal_index[j])
                 \/ /\ Timestamp(temporal_index[i])
                           = Timestamp(temporal_index[j])
                    /\ temporal_index[i] > temporal_index[j]

\* C18: after record_experience and connect_memories calls, a load_memories
\* call leaves the temporal index, the importance index and every type
\* bucket with the contents and the order they had before the call.
C18_RebuildEqualsIncremental ==
    [][(IsCall /\ result'.op = "load_memories")
       => /\ temporal_index' = temporal_index
          /\ importance_index' = importance_index
          /\ type_index' = type_index]_vars

\* the temporal index restricted to the ids whose memory has the type
TemporalOfType(type) ==
    SelectSeq(temporal_index,
              LAMBDA id : Get(semantic_index, id).type = type)

\* C19: in every reachable state and for every type T, the type bucket of
\* T is the temporal index restricted to the ids whose memory has type T,
\* in the same relative order.
C19_BucketIsTemporalOfType ==
    \A type \in Types \cup DOMAIN type_index :
        BucketOf(type_index, type) = TemporalOfType(type)

C19_Witness ==
    /\ Len(temporal_index) = 2
    /\ \E type \in DOMAIN type_index : Len(type_index[type]) = 2
    /\ Timestamp(1) = Timestamp(2)
    /\ result.op = "load_memories"

\* the types whose bucket holds the id
BucketsOf(id) == {type \in DOMAIN type_index : id \in Range(type_index[type])}

\* C20: in every reachable state each id occurs at most once in the
\* temporal index, at most once in the importance index, and in exactly one
\* type bucket, that of its memory's type, at most once.
C20_IdsUnique ==
    /\ NoDuplicates(temporal_index)
    /\ NoDuplicates(importance_index)
    /\ \A type \in DOMAIN type_index : NoDuplicates(type_index[type])
    /\ \A id \in Keys(semantic_index) :
           BucketsOf(id) = {Get(semantic_index, id).type}

C20_Witness ==
    /\ result.op = "load_memories"
    /\ Len(temporal_index) = 1
    /\ Get(semantic_index, 1).relationships # <<>>

\* the rows of the table that have the id
RowsOf(memory_id) == SelectSeq(table, LAMBDA row : row.id = memory_id)

\* C16: StorageManager.update_access called with an id that has no stored
\* record fails with NotFoundError.
C16_UpdateAccessNotFound ==
    (reply.op = "update_access" /\ RowsOf(reply.id) = <<>>)
    => reply.error = "NotFoundError"

\* the payload holds JSON values only: no tuple
JsonValued(memory) ==
    \A i \in 1..Len(memory.content) : memory.content[i].value.py # "tuple"

\* a get_memory of the id just stored / a load_all_memories right after a
\* store_memory
StoreThenGet ==
    /\ reply.op = "store_memory"
    /\ reply'.op = "get_memory"
    /\ reply'.id = reply.id

StoreThenLoadAll ==
    /\ reply.op = "store_memory"
    /\ reply'.op = "load_all_memories"

\* the Memory read back equals the Memory stored, field by field
ReadBackEqual ==
    /\ StoreThenGet => reply'.returned = reply.memory
    /\ StoreThenLoadAll =>
           \E i \in 1..Len(reply'.returned) :
               /\ reply'.returned[i] = reply.memory[1]
               /\ \A j \in 1..Len(reply'.returned) :
                      reply'.returned[j].id = reply.id => j = i

\* C12 as stated: for every Memory m, store_memory(m) followed by
\* load_all_memories or get_memory(m.id) yields a Memory equal to m in
\* every field.
C12_RoundTrip == [][ReadBackEqual]_vars

\* C12: for every Memory m whose content, metadata and context hold JSON
\* values only (string-keyed dicts, lists, strings, finite numbers, booleans
\* and None, so no tuple), store_memory(m) followed by load_all_memories or
\* get_memory(m.id) yields a Memory equal to m in every field.
C12_RoundTripJsonValued ==
    [][(reply.op = "store_memory" /\ JsonValued(reply.memory[1]))
       => ReadBackEqual]_vars

C12_Witness ==
    /\ reply.op = "get_memory"
    /\ Len(reply.returned) = 1
    /\ reply.returned[1].content
           = <<[key |-> "k", value |-> [py |-> "list", of |-> <<1>>]]>>
    /\ reply.returned[1].relationships # <<>>
    /\ Len(table) = 2

\* C14: no record_experience call ends with the exception of the embedding
\* fallback (ValueError, raised only after the provider call failed): the
\* fallback vector is produced, the memory is in the index and, unless the
\* storage write itself fails, in storage.
C14_ProviderFailureAbsorbed ==
    result.op = "record_experience"
    => /\ result.error # "ValueError"
       /\ result.source \in Keys(semantic_index)
       /\ result.error = "" => result.source \in Keys(storage)

\* C15: get_embedding returns the same fallback vector on every call with
\* the same text whose provider call fails, in one run of the program and
\* in two.
C15_FallbackDeterministic ==
    \A e1, e2 \in embedded :
        (e1.text = e2.text /\ e1.failed /\ e2.failed)
        => e1.outcome = e2.outcome

\* the step is a connect_memories call whose storage write fails
ConnectWriteFails ==
    /\ IsCall
    /\ result'.op = "connect_memories"
    /\ result'.error \notin {"", "KeyError"}

\* C22: when the storage write of connect_memories fails, the call fails
\* with PersistenceError, the relationships of the source in the index are
\* what they were before the call, and they are those of the stored record.
C22_ConnectRollback ==
    [][ConnectWriteFails
       => /\ result'.error = "PersistenceError"
          /\ Get(semantic_index', result'.source).relationships
                 = Get(semantic_index, result'.source).relationships
          /\ result'.source \in Keys(storage')
                 => Get(storage', result'.source).relationships
                        = Get(semantic_index', result'.source).relationships]_vars

\* C23: an id that is in the index in some state is in the index in every
\* later state: no step removes an id from the semantic index, the temporal
\* index, the importance index or the type buckets.
C23_AppendOnly ==
    [][/\ Keys(semantic_index) \subseteq Keys(semantic_index')
       /\ Range(temporal_index) \subseteq Range(temporal_index')
       /\ Range(importance_index) \subseteq Range(importance_index')
       /\ TypeIndexIds \subseteq TypeIndexIds']_vars

\* the fields of a memory that are set at creation
Immutable(memory) ==
    <<memory.id, memory.timestamp, memory.type, memory.importance,
      memory.embedding>>

\* every memory kept by the step keeps its creation fields
KeepsImmutable(memories, memories_after) ==
    \A id \in Keys(memories) \cap Keys(memories_after) :
        Immutable(Get(memories_after, id)) = Immutable(Get(memories, id))

\* the relationship lists under the names other than relationship are kept
OtherListsKept(before, after, relationship) ==
    /\ DOMAIN after \subseteq DOMAIN before \cup {relationship}
    /\ \A name \in DOMAIN before :
           name # relationship => name \in DOMAIN after
                                  /\ after[name] = before[name]

\* what a connect_memories step may change: the list under the relationship
\* in the relationships of the source, and the stored record of the source
ConnectFrame ==
    /\ UNCHANGED <<temporal_index, importance_index, type_index>>
    /\ Len(semantic_index') = Len(semantic_index)
    /\ \A i \in 1..Len(semantic_index) :
           LET before == semantic_index[i]
               after == semantic_index'[i]
           IN IF before.id = result'.source
              THEN /\ after = [before EXCEPT
                                 !.relationships = after.relationships]
                   /\ OtherListsKept(before.relationships,
                                     after.relationships,
                                     result'.relationship)
              ELSE after = before
    /\ Keys(storage') \subseteq Keys(storage) \cup {result'.source}
    /\ \A id \in Keys(storage) \ {result'.source} :
           id \in Keys(storage') /\ Get(storage', id) = Get(storage, id)

AllOrNone ==
    \A id \in Keys(semantic_index) \cup Range(temporal_index)
                \cup Range(importance_index) \cup TypeIndexIds :
        /\ id \in Keys(semantic_index)
        /\ id \in Range(temporal_index)
        /\ id \in Range(importance_index)
        /\ id \in TypeIndexIds

\* the step is the part of a recall operation that reads the indices
RecallReads == result' # result /\ result'.op \in RecallOps

\* C21: with the operations interleaved at their awaits, at every point
\* where another coroutine can run an id is in all four views or in none,
\* and every recall reads the indices in such a state.
C21_NoPartialUpdate ==
    /\ [](Idle => AllOrNone)
    /\ [][RecallReads => AllOrNone]_vars

C21_Witness ==
    /\ Idle
    /\ result.op \in RecallOps
    /\ result.returned = <<2>>
    /\ \E task \in pending :
           task.op = "record_experience" /\ task.memory[1].id = 1

\* the memory entries of type "action"
ActionEntries(memory) ==
    Cardinality({i \in 1..Len(memory) : memory[i].type = "action"})

\* a call of execute_with_understanding that got its screenshot ends
CallEnds == tool.pc = "plan_actions" /\ tool'.pc = "idle"

\* C25: a call of execute_with_understanding whose screenshot succeeded and
\* in which no planned action raised assigns the modes PERCEPTION, PLANNING,
\* EXECUTION in that order and returns its result with the mode PERCEPTION,
\* the confidence 1.0 and one memory entry appended per executed action
C25_ModeSequence ==
    [][(CallEnds /\ tool'.returned # "Action execution failed") =>
          /\ tool'.raised = ""
          /\ tool'.returned = ""
          /\ tool'.modes = <<PERCEPTION, PLANNING, EXECUTION, PERCEPTION>>
          /\ neural'.mode = PERCEPTION
          /\ neural'.confidence = 10
          /\ ActionEntries(neural'.memory) - ActionEntries(neural.memory)
                = tool'.executed]_vars
====
